---- MODULE Spec2Model ----
(***************************************************************************)
(* Usage accounting and lockout engine of the Vigilant wellbeing app:      *)
(* the express/sqlite server (src/server.ts) and the React client          *)
(* (src/unnamed/part_000, the App component).                              *)
(*                                                                         *)
(* The server state is the usage_logs table, the users row and the server  *)
(* clock's calendar day.  The client state is the App component's useState *)
(* cells.  Every await of the client is a message in flight: a request the *)
(* server has not served yet, or a response the client has not consumed.   *)
(* A client action is one React commit: the state updates of a handler or  *)
(* continuation, followed by the effects whose dependencies changed.       *)
(***************************************************************************)
EXTENDS Integers, Sequences, FiniteSets, TLC

VARIABLES
    \* ---- server (src/server.ts)
    logs,              \* usage_logs rows in insertion order: [day, dur]
    today,             \* calendar day of the server clock, date('now')
    users,             \* users rows: the daily_limit_minutes of each (at most one row)
    guardianRows,      \* guardians rows in insertion order: the name of each
    \* ---- network
    posts,             \* trackUsage POSTs: [sent |-> not yet served, done |-> row inserted, failed |-> answered 500], responses not yet consumed
    fetches,           \* fetchData calls in flight: snapshots of /api/stats and /api/user
    saves,             \* updateProfile POSTs in flight: [limit, served]
    guardPosts,        \* addGuardian POSTs in flight: [name, served]
    \* ---- client (App component state)
    view,
    limitMinutes,      \* user.daily_limit_minutes
    usageSeconds,
    fatigueLevel,
    recommendation,
    isLocked,
    guardians,         \* the guardians list of the page: names, in the order fetched
    isEmergencyActive,
    emTimers,          \* pending setTimeout callbacks of handleEmergency, oldest first: the guardians list each closure captured
    lastAlert,         \* the names in the last alert() shown: <<names>>, or <<>> if none was
    advPending,        \* analyzeFatigue calls awaiting generateContent
    advIssued,         \* number of analyzeFatigue calls made so far
    \* ---- bookkeeping
    nTicks,            \* setInterval firings so far
    tickedIn,          \* the values of isLocked in which the interval has fired
    nRefetch,          \* submissions so far of the forms that end in fetchData()
    nSaves,            \* updateProfile calls so far
    loaded,            \* some fetchData call has resolved and set the page's data
    periodSum,         \* sum of the durations recorded since the last period boundary
    owed,              \* for each guardian: triggers made with them in the page's list, less the times an alert has named them
    emPressedIn,       \* the values of isLocked in which handleEmergency has been called
    storedBy,          \* the analyzeFatigue call whose setters ran last (0: none has)
    newestStored,      \* the latest-made call whose setters have run (0: none has)
    lastGood           \* <<score, recommendation>> of the last oracle answer that was a JSON object; <<>> if none

vars == <<logs, today, users, guardianRows, posts, fetches, saves, guardPosts,
          view, limitMinutes, usageSeconds, fatigueLevel, recommendation,
          isLocked, guardians, isEmergencyActive, emTimers, lastAlert,
          advPending, advIssued, nTicks, tickedIn, nRefetch, nSaves, loaded,
          periodSum, owed, emPressedIn, storedBy, newestStored, lastGood>>

serverVars == <<logs, today, users, guardianRows>>
netVars    == <<posts, fetches, saves, guardPosts>>
lockVars   == <<view, isLocked>>
advVars    == <<fatigueLevel, recommendation, advPending, advIssued,
                storedBy, newestStored, lastGood>>
emVars     == <<isEmergencyActive, emTimers, lastAlert, owed, emPressedIn>>
countVars  == <<nTicks, tickedIn, nRefetch, nSaves>>

(***************************************************************************)
(* Bounds of the model.                                                    *)
(***************************************************************************)
MaxDay      == 1      \* period boundaries crossed
MaxTicks    == 2      \* firings of the usage interval
MaxLogs     == 2      \* usage_logs rows another caller may fill
MaxPosts    == 1      \* trackUsage POSTs in flight at once
MaxForms    == 1      \* form submissions: the fetchData calls after the mount's, and updateProfile calls
MaxTimers   == 2      \* pending emergency timeouts
MaxAdvisory == 2      \* analyzeFatigue calls

(***************************************************************************)
(* Program constants.                                                      *)
(***************************************************************************)
TickSeconds         == 10     \* duration_seconds of a tick, and the increment
SecondsPerMinute    == 60     \* limitSeconds = daily_limit_minutes * 60
AdvisoryPeriod      == 60     \* usageSeconds % 60 === 0
DefaultLimitMinutes == 360    \* useState default, and the Guest profile

InitialRecommendation == "System learning your patterns..."
DefaultRecommendation == "Take a short break."

Views    == {"dashboard", "settings", "guardians", "routine", "locked"}
\* The pages of the navigation rail that feed the accounting and the lockout:
\* the routine page, whose forms end in fetchData(), and the settings page.
NavViews == {"dashboard", "routine", "settings"}
\* The pages that change the limit: the settings page.
SettingsViews == {"dashboard", "settings"}
\* The pages that feed the emergency dispatcher: the guardians page.
DispatchViews == {"dashboard", "guardians"}

\* The names typed into the guardians form.
FormGuardians == {"g3"}
\* Every guardian there may be.
GuardianNames == {"g1", "g2", "g3"}

\* The limits a user types into the settings form (a number input with no
\* minimum): zero, which any recorded usage exceeds, and two minutes.
FormLimits == {0, 2}

\* The durations another caller of POST /api/usage may send.
ApiDurations == {-10, 0, 10}

\* The sessions another app may report to POST /api/usage (the table has an
\* app_name column): of the tick's size, and of a size that is no multiple
\* of it.
SessionDurations == {10, 55}

\* The database as the page may find it when it loads: a fresh install (no
\* usage, no profile, no guardians), or a returning user's (an earlier
\* session's usage of the current day, a profile with a limit of one minute,
\* and two guardians).
InitialDatabases ==
    {[logs |-> <<>>, users |-> <<>>, guardians |-> <<>>],
     [logs |-> <<[day |-> 0, dur |-> 60]>>, users |-> <<1>>,
      guardians |-> <<"g1", "g2">>]}

(***************************************************************************)
(* Server: src/server.ts                                                   *)
(***************************************************************************)
RECURSIVE SumDur(_)
SumDur(rows) ==
    IF rows = <<>> THEN 0 ELSE Head(rows).dur + SumDur(Tail(rows))

\* A plausible slip: the WHERE clause left out, an all-time total.
RowsAllTime(rows, d) == rows

\* WHERE timestamp >= date('now'): the rows whose timestamp is not before the
\* start of the server's current day.  A timestamp 'YYYY-MM-DD HH:MM:SS'
\* compares >= 'YYYY-MM-DD' exactly when its day is not earlier.
RowsToday(rows, d) == SelectSeq(rows, LAMBDA r : r.day >= d)

\* SUM(duration_seconds): NULL over no rows.
SqlSum(rows) ==
    IF rows = <<>> THEN [isNull |-> TRUE, val |-> 0]
                   ELSE [isNull |-> FALSE, val |-> SumDur(rows)]

\* GET /api/stats: total_seconds: totalToday.total || 0
StatsTotal ==
    LET total == SqlSum(RowsToday(logs, today))
    IN  IF total.isNull \/ total.val = 0 THEN 0 ELSE total.val

\* GET /api/user: the first row, or the Guest profile.
UserLimit == IF users = <<>> THEN DefaultLimitMinutes ELSE Head(users)

\* A plausible slip: one row a day, holding the day's running total.
InsertUsageRunningTotal(d) ==
    /\ logs' = IF logs # <<>> /\ logs[Len(logs)].day = today
                 THEN [logs EXCEPT ![Len(logs)].dur = @ + d]
                 ELSE Append(logs, [day |-> today, dur |-> d])
    /\ periodSum' = periodSum + d

\* POST /api/usage: the INSERT, timestamp DEFAULT CURRENT_TIMESTAMP.  No
\* check of duration_seconds is made.
InsertUsage(d) ==
    /\ logs' = Append(logs, [day |-> today, dur |-> d])
    /\ periodSum' = periodSum + d

\* POST /api/user: DELETE FROM users, then INSERT.
InsertUser(l) == users' = <<l>>

\* POST /api/guardians: the INSERT.
InsertGuardian(g) == guardianRows' = Append(guardianRows, g)

(***************************************************************************)
(* Client: the effects of the App component (src/unnamed/part_000)         *)
(***************************************************************************)
\* Plausible slips of the lock effect: >= for >, and a lock flag that
\* follows the comparison (so it clears when the total drops).
LockEffectGE(us, lim, locked) ==
    IF us >= lim * SecondsPerMinute /\ ~locked THEN TRUE ELSE locked

LockEffectFollows(us, lim, locked) == us > lim * SecondsPerMinute

\* A plausible slip: the lock evaluation waits for the advisory calls.
LockEffectAwaitsAdvisory(us, lim, locked) ==
    IF advPending = {} /\ us > lim * SecondsPerMinute /\ ~locked
      THEN TRUE ELSE locked

\* useEffect(..., [usageSeconds, user.daily_limit_minutes]): the value of
\* isLocked after the effect has run on the committed us and lim.
LockEffect(us, lim, locked) ==
    IF us > lim * SecondsPerMinute /\ ~locked THEN TRUE ELSE locked

\* useEffect(..., [usageSeconds]): whether analyzeFatigue is called.
AdvisoryDue(us) == us > 0 /\ us % AdvisoryPeriod = 0

\* One commit: the handler has set usageSeconds to us, the limit to lim and
\* the view to vw (batched); then the effects whose dependencies changed run.
Commit(us, lim, vw) ==
    LET lockRuns == us # usageSeconds \/ lim # limitMinutes
        locked   == IF lockRuns THEN LockEffect(us, lim, isLocked) ELSE isLocked
        advRuns  == us # usageSeconds /\ AdvisoryDue(us)
    IN  /\ usageSeconds' = us
        /\ limitMinutes' = lim
        /\ isLocked' = locked
        /\ view' = IF locked /\ ~isLocked THEN "locked" ELSE vw
        /\ IF advRuns
             THEN /\ advIssued < MaxAdvisory
                  /\ advIssued' = advIssued + 1
                  /\ advPending' = advPending \cup {advIssued + 1}
             ELSE UNCHANGED <<advPending, advIssued>>
        /\ UNCHANGED <<fatigueLevel, recommendation, storedBy, newestStored, lastGood>>

RemoveAt(q, i) == SubSeq(q, 1, i - 1) \o SubSeq(q, i + 1, Len(q))

NewFetch ==
    [statsDone |-> FALSE, total |-> 0,
     userDone |-> FALSE, limit |-> 0, guardians |-> <<>>]

(***************************************************************************)
(* State after the App component has mounted: the useState defaults, and   *)
(* the mount effect has called fetchData() and started the usage interval. *)
(***************************************************************************)
Init ==
    /\ \E db \in InitialDatabases :
          logs = db.logs /\ users = db.users /\ guardianRows = db.guardians
    /\ today = 0
    /\ posts = [sent |-> 0, done |-> 0, failed |-> 0]
    /\ fetches = <<NewFetch>>
    /\ saves = <<>>
    /\ guardPosts = <<>>
    /\ view = "dashboard"
    /\ limitMinutes = DefaultLimitMinutes
    /\ usageSeconds = 0
    /\ fatigueLevel = 0
    /\ recommendation = InitialRecommendation
    /\ isLocked = FALSE
    /\ guardians = <<>>
    /\ isEmergencyActive = FALSE
    /\ emTimers = <<>>
    /\ lastAlert = <<>>
    /\ owed = [g \in GuardianNames |-> 0]
    /\ emPressedIn = {}
    /\ advPending = {}
    /\ advIssued = 0
    /\ nTicks = 0
    /\ tickedIn = {}
    /\ nRefetch = 0
    /\ nSaves = 0
    /\ loaded = FALSE
    /\ periodSum = SumDur(logs)
    /\ storedBy = 0
    /\ newestStored = 0
    /\ lastGood = <<>>

(***************************************************************************)
(* Server clock                                                            *)
(***************************************************************************)
\* The server's calendar day changes: date('now') moves to the next day.
Midnight ==
    /\ today < MaxDay
    /\ today' = today + 1
    /\ periodSum' = 0
    /\ UNCHANGED <<logs, users, guardianRows, netVars, lockVars, limitMinutes, usageSeconds,
                   advVars, guardians, emVars, countVars, loaded>>

(***************************************************************************)
(* fetchData                                                               *)
(***************************************************************************)
\* addRoutine, deleteRoutine and toggleRoutine: the request has been answered
\* and fetchData() is called.
Refetch ==
    /\ view = "routine"
    /\ nRefetch + nSaves < MaxForms
    /\ nRefetch' = nRefetch + 1
    /\ fetches' = Append(fetches, NewFetch)
    /\ UNCHANGED <<serverVars, posts, saves, guardPosts, lockVars, limitMinutes,
                   usageSeconds, advVars, guardians, emVars, nTicks, tickedIn, nSaves, periodSum, loaded>>

\* GET /api/stats is served for fetch i.
ServeStats(i) ==
    /\ ~fetches[i].statsDone
    /\ fetches' = [fetches EXCEPT ![i].statsDone = TRUE, ![i].total = StatsTotal]
    /\ UNCHANGED <<serverVars, posts, saves, guardPosts, lockVars, limitMinutes,
                   usageSeconds, advVars, guardians, emVars, countVars, periodSum, loaded>>

\* GET /api/user and GET /api/guardians are served for fetch i.  The two
\* requests are one step: they read different tables, and no specification
\* below has writers of both (the settings form writes users, the guardians
\* form writes guardians), so the pair of answers that two steps would give
\* is the pair one step gives when the table that changes is read.
ServeUser(i) ==
    /\ ~fetches[i].userDone
    /\ fetches' = [fetches EXCEPT ![i].userDone = TRUE,
                                  ![i].limit = UserLimit,
                                  ![i].guardians = guardianRows]
    /\ UNCHANGED <<serverVars, posts, saves, guardPosts, lockVars, limitMinutes,
                   usageSeconds, advVars, guardians, emVars, countVars, periodSum, loaded>>

\* Promise.all has resolved: setUser, setGuardians, setUsageSeconds, setRoutines.
FetchResolve(i) ==
    /\ fetches[i].statsDone /\ fetches[i].userDone
    /\ fetches' = RemoveAt(fetches, i)
    /\ Commit(fetches[i].total, fetches[i].limit, view)
    /\ guardians' = fetches[i].guardians
    /\ loaded' = TRUE
    /\ UNCHANGED <<serverVars, posts, saves, guardPosts, emVars, countVars, periodSum>>

\* One of the four requests rejects: the catch logs, nothing is set.
FetchReject(i) ==
    /\ fetches' = RemoveAt(fetches, i)
    /\ UNCHANGED <<serverVars, posts, saves, guardPosts, lockVars, limitMinutes,
                   usageSeconds, advVars, guardians, emVars, countVars, periodSum, loaded>>

(***************************************************************************)
(* trackUsage                                                              *)
(***************************************************************************)
\* An interval that the lock clears: it fires only while the page is unlocked.
TickWhenUnlocked ==
    /\ ~isLocked
    /\ nTicks < MaxTicks
    /\ posts.sent + posts.done + posts.failed < MaxPosts
    /\ nTicks' = nTicks + 1
    /\ tickedIn' = tickedIn \cup {isLocked}
    /\ posts' = [posts EXCEPT !.sent = @ + 1]
    /\ UNCHANGED <<serverVars, fetches, saves, guardPosts, lockVars, limitMinutes,
                   usageSeconds, advVars, guardians, emVars, nRefetch, nSaves, periodSum, loaded>>

\* The interval fires: trackUsage() sends its POST.
Tick ==
    /\ nTicks < MaxTicks
    /\ posts.sent + posts.done + posts.failed < MaxPosts
    /\ nTicks' = nTicks + 1
    /\ tickedIn' = tickedIn \cup {isLocked}
    /\ posts' = [posts EXCEPT !.sent = @ + 1]
    /\ UNCHANGED <<serverVars, fetches, saves, guardPosts, lockVars, limitMinutes,
                   usageSeconds, advVars, guardians, emVars, nRefetch, nSaves, periodSum, loaded>>

\* POST /api/usage is served: the row is inserted.
ServePost ==
    /\ posts.sent > 0
    /\ InsertUsage(TickSeconds)
    /\ posts' = [posts EXCEPT !.sent = @ - 1, !.done = @ + 1]
    /\ UNCHANGED <<today, users, guardianRows, fetches, saves, guardPosts, lockVars, limitMinutes,
                   usageSeconds, advVars, guardians, emVars, countVars, loaded>>

\* POST /api/usage: the INSERT throws (database busy or full), express answers
\* 500; fetch() resolves all the same, and trackUsage does not look at res.ok.
ServePostError ==
    /\ posts.sent > 0
    /\ posts' = [posts EXCEPT !.sent = @ - 1, !.failed = @ + 1]
    /\ UNCHANGED <<serverVars, fetches, saves, guardPosts, lockVars, limitMinutes,
                   usageSeconds, advVars, guardians, emVars, countVars, periodSum, loaded>>

\* The await resolves, whatever the status of the response:
\* setUsageSeconds(prev => prev + 10).
TrackResolve ==
    /\ \E k \in {"done", "failed"} :
          posts[k] > 0 /\ posts' = [posts EXCEPT ![k] = @ - 1]
    /\ Commit(usageSeconds + TickSeconds, limitMinutes, view)
    /\ UNCHANGED <<serverVars, fetches, saves, guardPosts, guardians, emVars, countVars, periodSum, loaded>>

\* The request never reaches the server: fetch() rejects, the catch logs.
TrackRejectRequest ==
    /\ posts.sent > 0
    /\ posts' = [posts EXCEPT !.sent = @ - 1]
    /\ UNCHANGED <<serverVars, fetches, saves, guardPosts, lockVars, limitMinutes,
                   usageSeconds, advVars, guardians, emVars, countVars, periodSum, loaded>>

\* The response is lost after the server has answered: fetch() rejects.
TrackRejectResponse ==
    /\ \E k \in {"done", "failed"} :
          posts[k] > 0 /\ posts' = [posts EXCEPT ![k] = @ - 1]
    /\ UNCHANGED <<serverVars, fetches, saves, guardPosts, lockVars, limitMinutes,
                   usageSeconds, advVars, guardians, emVars, countVars, periodSum, loaded>>

(***************************************************************************)
(* analyzeFatigue                                                          *)
(***************************************************************************)
NoFields == [hasScore |-> FALSE, score |-> 0, hasRec |-> FALSE, rec |-> ""]

\* What the oracle's JSON object may hold: a score, or none; a
\* recommendation, an empty one, or none.
OracleObjects ==
    {NoFields}
    \cup {[NoFields EXCEPT !.hasScore = TRUE, !.score = s] : s \in {-5, 0, 50, 150}}
    \cup {[NoFields EXCEPT !.hasRec = TRUE, !.rec = r] : r \in {"", "rest"}}
    \cup {[hasScore |-> TRUE, score |-> s, hasRec |-> TRUE, rec |-> "rest"] :
            s \in {-5, 50, 150}}

\* What generateContent may do: reject (network, quota); resolve with text
\* that is not JSON; with the JSON text null; with no text at all; or with a
\* JSON object.
OracleResponses ==
    {[kind |-> k, obj |-> NoFields] : k \in {"reject", "garbage", "null", "empty"}}
    \cup {[kind |-> "object", obj |-> o] : o \in OracleObjects}

\* The try block throws: generateContent rejected, JSON.parse threw a
\* SyntaxError, or result is null and result.score a TypeError.
Throws(resp) == resp.kind \in {"reject", "garbage", "null"}

\* JSON.parse(response.text || "{}")
Parsed(resp) == IF resp.kind = "empty" THEN NoFields ELSE resp.obj

\* result.score || 0
ScoreOrZero(o) == IF o.hasScore /\ o.score # 0 THEN o.score ELSE 0

\* result.recommendation || "Take a short break."
RecOrDefault(o) == IF o.hasRec /\ o.rec # "" THEN o.rec ELSE DefaultRecommendation

\* A plausible slip: a high score locks the screen.
AnalyzeReturnLocks(id, resp) ==
    /\ id \in advPending
    /\ advPending' = advPending \ {id}
    /\ IF Throws(resp)
         THEN UNCHANGED <<fatigueLevel, recommendation, storedBy, newestStored,
                          lastGood, lockVars>>
         ELSE /\ fatigueLevel' = ScoreOrZero(Parsed(resp))
              /\ recommendation' = RecOrDefault(Parsed(resp))
              /\ storedBy' = id
              /\ newestStored' = IF id > newestStored THEN id ELSE newestStored
              /\ lastGood' = IF resp.kind = "object"
                               THEN <<[score |-> fatigueLevel', rec |-> recommendation']>>
                               ELSE lastGood
              /\ isLocked' = (isLocked \/ fatigueLevel' > 70)
              /\ view' = IF isLocked' /\ ~isLocked THEN "locked" ELSE view
    /\ UNCHANGED <<serverVars, netVars, limitMinutes, usageSeconds,
                   advIssued, guardians, emVars, countVars, periodSum, loaded>>

\* Call id returns with resp: the setters run, or the catch logs.
AnalyzeReturn(id, resp) ==
    /\ id \in advPending
    /\ advPending' = advPending \ {id}
    /\ IF Throws(resp)
         THEN UNCHANGED <<fatigueLevel, recommendation, storedBy, newestStored>>
         ELSE /\ fatigueLevel' = ScoreOrZero(Parsed(resp))
              /\ recommendation' = RecOrDefault(Parsed(resp))
              /\ storedBy' = id
              /\ newestStored' = IF id > newestStored THEN id ELSE newestStored
    /\ lastGood' = IF resp.kind = "object"
                     THEN <<[score |-> fatigueLevel', rec |-> recommendation']>>
                     ELSE lastGood
    /\ UNCHANGED <<serverVars, netVars, lockVars, limitMinutes, usageSeconds,
                   advIssued, guardians, emVars, countVars, periodSum, loaded>>

(***************************************************************************)
(* handleEmergency, unlockSystem, updateProfile, navigation                *)
(***************************************************************************)
RECURSIVE Count(_, _)
Count(names, g) ==
    IF names = <<>> THEN 0
    ELSE (IF Head(names) = g THEN 1 ELSE 0) + Count(Tail(names), g)

\* A plausible slip: the alert names the first guardian only.
AlertFirstOnly(gs) == IF gs = <<>> THEN <<>> ELSE <<Head(gs)>>

\* guardians.map(g => g.name): the names the alert lists.
AlertNames(gs) == gs

\* A plausible slip: an SOS pressed on the lock screen lifts the lock.
HandleEmergencyUnlocks ==
    /\ \/ view = "dashboard" /\ ~isEmergencyActive
       \/ view = "locked"
    /\ Len(emTimers) < MaxTimers
    /\ isEmergencyActive' = TRUE
    /\ emTimers' = Append(emTimers, guardians)
    /\ owed' = [g \in GuardianNames |-> owed[g] + Count(guardians, g)]
    /\ emPressedIn' = emPressedIn \cup {isLocked}
    /\ isLocked' = FALSE
    /\ view' = "dashboard"
    /\ UNCHANGED <<serverVars, netVars, limitMinutes, usageSeconds,
                   advVars, guardians, lastAlert, countVars, periodSum, loaded>>

\* The dashboard button is disabled while isEmergencyActive; the locked
\* view's button is not.  handleEmergency itself tests nothing.  The
\* callback it schedules is a closure of this render: it holds the guardians
\* list as it is now.
HandleEmergency ==
    /\ \/ view = "dashboard" /\ ~isEmergencyActive
       \/ view = "locked"
    /\ Len(emTimers) < MaxTimers
    /\ isEmergencyActive' = TRUE
    /\ emTimers' = Append(emTimers, guardians)
    /\ owed' = [g \in GuardianNames |-> owed[g] + Count(guardians, g)]
    /\ emPressedIn' = emPressedIn \cup {isLocked}
    /\ UNCHANGED <<serverVars, netVars, lockVars, limitMinutes, usageSeconds,
                   advVars, guardians, lastAlert, countVars, periodSum, loaded>>

\* The 2000 ms timeout fires (the timeouts have one delay, so the oldest
\* first): alert(...), setIsEmergencyActive(false).
EmergencyTimeout ==
    /\ emTimers # <<>>
    /\ emTimers' = Tail(emTimers)
    /\ lastAlert' = <<AlertNames(Head(emTimers))>>
    /\ owed' = [g \in GuardianNames |-> owed[g] - Count(lastAlert'[1], g)]
    /\ isEmergencyActive' = FALSE
    /\ UNCHANGED <<serverVars, netVars, lockVars, limitMinutes, usageSeconds,
                   advVars, guardians, emPressedIn, countVars, periodSum, loaded>>

\* The guardians form is submitted with name g: POST /api/guardians is sent.
AddGuardian(g) ==
    /\ view = "guardians"
    /\ nRefetch + nSaves < MaxForms
    /\ nRefetch' = nRefetch + 1
    /\ guardPosts' = Append(guardPosts, [name |-> g, served |-> FALSE])
    /\ UNCHANGED <<serverVars, posts, fetches, saves, lockVars, limitMinutes,
                   usageSeconds, advVars, guardians, emVars, nTicks, tickedIn, nSaves,
                   periodSum, loaded>>

\* POST /api/guardians is served.
ServeGuardian(i) ==
    /\ ~guardPosts[i].served
    /\ InsertGuardian(guardPosts[i].name)
    /\ guardPosts' = [guardPosts EXCEPT ![i].served = TRUE]
    /\ UNCHANGED <<logs, today, users, posts, fetches, saves, lockVars,
                   limitMinutes, usageSeconds, advVars, guardians, emVars,
                   countVars, periodSum, loaded>>

\* The await resolves: fetchData() is called.
AddGuardianResolve(i) ==
    /\ guardPosts[i].served
    /\ guardPosts' = RemoveAt(guardPosts, i)
    /\ fetches' = Append(fetches, NewFetch)
    /\ UNCHANGED <<serverVars, posts, saves, lockVars, limitMinutes,
                   usageSeconds, advVars, guardians, emVars, countVars,
                   periodSum, loaded>>

\* fetch() rejects: addGuardian has no catch, fetchData() is not called.
AddGuardianReject(i) ==
    /\ guardPosts' = RemoveAt(guardPosts, i)
    /\ UNCHANGED <<serverVars, posts, fetches, saves, lockVars, limitMinutes,
                   usageSeconds, advVars, guardians, emVars, countVars,
                   periodSum, loaded>>

\* A plausible slip: the override is granted only once the total is back
\* under the limit.
UnlockSystemIfUnder ==
    /\ view = "locked"
    /\ isLocked' = (usageSeconds > limitMinutes * SecondsPerMinute)
    /\ view' = IF isLocked' THEN view ELSE "dashboard"
    /\ UNCHANGED <<serverVars, netVars, limitMinutes, usageSeconds, advVars,
                   guardians, emVars, countVars, periodSum, loaded>>

\* The locked view's Request Unlock button.
UnlockSystem ==
    /\ view = "locked"
    /\ isLocked' = FALSE
    /\ view' = "dashboard"
    /\ UNCHANGED <<serverVars, netVars, limitMinutes, usageSeconds, advVars,
                   guardians, emVars, countVars, periodSum, loaded>>

\* The settings form is submitted with limit l: POST /api/user is sent.
UpdateProfile(l) ==
    /\ view = "settings"
    /\ nRefetch + nSaves < MaxForms
    /\ nSaves' = nSaves + 1
    /\ saves' = Append(saves, [limit |-> l, served |-> FALSE])
    /\ UNCHANGED <<serverVars, posts, fetches, guardPosts, lockVars, limitMinutes,
                   usageSeconds, advVars, guardians, emVars, nTicks, tickedIn, nRefetch, periodSum, loaded>>

\* POST /api/user is served.
ServeSave(i) ==
    /\ ~saves[i].served
    /\ InsertUser(saves[i].limit)
    /\ saves' = [saves EXCEPT ![i].served = TRUE]
    /\ UNCHANGED <<logs, today, guardianRows, posts, fetches, guardPosts, lockVars, limitMinutes,
                   usageSeconds, advVars, guardians, emVars, countVars, periodSum, loaded>>

\* The await resolves: setUser(updatedUser), setView('dashboard').
SaveResolve(i) ==
    /\ saves[i].served
    /\ saves' = RemoveAt(saves, i)
    /\ Commit(usageSeconds, saves[i].limit, "dashboard")
    /\ UNCHANGED <<serverVars, posts, fetches, guardPosts, guardians, emVars, countVars, periodSum, loaded>>

\* fetch() rejects: updateProfile has no catch, nothing is set.
SaveReject(i) ==
    /\ saves' = RemoveAt(saves, i)
    /\ UNCHANGED <<serverVars, posts, fetches, guardPosts, lockVars, limitMinutes,
                   usageSeconds, advVars, guardians, emVars, countVars, periodSum, loaded>>

\* A button of the navigation rail; the locked view's overlay covers the rail.
Navigate(v) ==
    /\ view # "locked"
    /\ view # v
    /\ view' = v
    /\ UNCHANGED <<serverVars, netVars, isLocked, limitMinutes, usageSeconds,
                   advVars, guardians, emVars, countVars, periodSum, loaded>>

(***************************************************************************)
(* Another caller of the HTTP API                                          *)
(***************************************************************************)
\* POST /api/usage with duration_seconds d, from any client of the server.
ApiPostUsage(d) ==
    /\ Len(logs) < MaxLogs
    /\ InsertUsage(d)
    /\ UNCHANGED <<today, users, guardianRows, netVars, lockVars, limitMinutes, usageSeconds,
                   advVars, guardians, emVars, countVars, loaded>>

(***************************************************************************)
(* Specifications                                                          *)
(***************************************************************************)
\* A fetchData call in flight is served, resolves or rejects.
FetchStep ==
    \/ \E i \in 1..Len(fetches) : ServeStats(i)
    \/ \E i \in 1..Len(fetches) : ServeUser(i)
    \/ \E i \in 1..Len(fetches) : FetchResolve(i)
    \/ \E i \in 1..Len(fetches) : FetchReject(i)

TrackStep ==
    \/ Tick
    \/ ServePost
    \/ ServePostError
    \/ TrackResolve
    \/ TrackRejectRequest
    \/ TrackRejectResponse

AdvisoryStep ==
    \E id \in advPending, resp \in OracleResponses : AnalyzeReturn(id, resp)

ProfileStep ==
    \/ \E l \in FormLimits : UpdateProfile(l)
    \/ \E i \in 1..Len(saves) : ServeSave(i)
    \/ \E i \in 1..Len(saves) : SaveResolve(i)
    \/ \E i \in 1..Len(saves) : SaveReject(i)

EmergencyStep ==
    \/ HandleEmergency
    \/ EmergencyTimeout

NavStep == \E v \in NavViews : Navigate(v)

DispatchNavStep == \E v \in DispatchViews : Navigate(v)

SettingsNavStep == \E v \in SettingsViews : Navigate(v)

GuardianStep ==
    \/ \E g \in FormGuardians : AddGuardian(g)
    \/ \E i \in 1..Len(guardPosts) : ServeGuardian(i)
    \/ \E i \in 1..Len(guardPosts) : AddGuardianResolve(i)
    \/ \E i \in 1..Len(guardPosts) : AddGuardianReject(i)

ApiStep == \E d \in ApiDurations : ApiPostUsage(d)

\* Usage accounting and lockout without the pages of the navigation rail:
\* the mount's fetchData, the usage interval, the lock and the override.
Core ==
    \/ FetchStep
    \/ TrackStep
    \/ UnlockSystem
    \/ Midnight

\* The engine alone.
SpecCore == Init /\ [][Core]_vars

\* The accounting and lockout engine with every page that feeds it: the
\* forms that re-fetch, and the settings form that changes the limit.
Next ==
    \/ Core
    \/ Refetch
    \/ ProfileStep
    \/ NavStep

Spec == Init /\ [][Next]_vars

\* The same with no request failing: every fetchData, trackUsage and
\* updateProfile call is served and resolves.
NextLock ==
    \/ \E i \in 1..Len(fetches) : ServeStats(i)
    \/ \E i \in 1..Len(fetches) : ServeUser(i)
    \/ \E i \in 1..Len(fetches) : FetchResolve(i)
    \/ Refetch
    \/ Tick
    \/ ServePost
    \/ TrackResolve
    \/ \E l \in FormLimits : UpdateProfile(l)
    \/ \E i \in 1..Len(saves) : ServeSave(i)
    \/ \E i \in 1..Len(saves) : SaveResolve(i)
    \/ UnlockSystem
    \/ NavStep
    \/ Midnight

SpecLock == Init /\ [][NextLock]_vars

\* The lockout with its two inputs, the total and the limit, and no request
\* failing: the mount's fetchData, the usage interval, the settings form, the
\* override and the period boundary.
NextSettings ==
    \/ \E i \in 1..Len(fetches) : ServeStats(i)
    \/ \E i \in 1..Len(fetches) : ServeUser(i)
    \/ \E i \in 1..Len(fetches) : FetchResolve(i)
    \/ Tick
    \/ ServePost
    \/ TrackResolve
    \/ \E l \in FormLimits : UpdateProfile(l)
    \/ \E i \in 1..Len(saves) : ServeSave(i)
    \/ \E i \in 1..Len(saves) : SaveResolve(i)
    \/ UnlockSystem
    \/ SettingsNavStep
    \/ Midnight

SpecSettings == Init /\ [][NextSettings]_vars

\* The engine with the advisory oracle answering.
NextAdvisory == Core \/ AdvisoryStep

SpecAdvisory == Init /\ [][NextAdvisory]_vars

\* The same with the forms that re-fetch, so that usageSeconds can come back
\* to a multiple of 60 and a second analyzeFatigue call is made.
NextAdvisoryNav == Core \/ Refetch \/ NavStep \/ AdvisoryStep

SpecAdvisoryNav == Init /\ [][NextAdvisoryNav]_vars

\* The engine with the emergency buttons.
NextEmergency == Core \/ EmergencyStep

SpecEmergency == Init /\ [][NextEmergency]_vars

\* The engine with the emergency buttons, where a timeout that is due fires:
\* a browser runs every setTimeout callback whose delay has passed.
SpecEmergencyFair == SpecEmergency /\ WF_vars(EmergencyTimeout)

\* The dispatcher with the guardians page and its form, without the usage
\* interval: the list of the page changes while incidents are pending.
NextDispatch == FetchStep \/ EmergencyStep \/ GuardianStep \/ DispatchNavStep

SpecDispatch == Init /\ [][NextDispatch]_vars

\* The engine with other callers of POST /api/usage beside the page.
NextApi == Core \/ ApiStep

SpecApi == Init /\ [][NextApi]_vars

\* The engine with the advisory oracle answering, and with sessions that
\* other apps report: the totals the page loads are not all multiples of 10.
SessionStep == \E d \in SessionDurations : ApiPostUsage(d)

NextCadence == Core \/ SessionStep \/ AdvisoryStep

SpecCadence == Init /\ [][NextCadence]_vars

(***************************************************************************)
(* Lockout state machine                                                   *)
(***************************************************************************)
LimitSeconds == limitMinutes * SecondsPerMinute

\* The lock effect runs in a step: one of its dependencies changed.
LockEvaluated == usageSeconds' # usageSeconds \/ limitMinutes' # limitMinutes

\* C1: the state goes from Unlocked to Locked only in a step after which
\* usageSeconds > limitMinutes * 60 (so never on an equal total); every
\* evaluation of the lock condition that finds the total above the limit ends
\* Locked; and an evaluation made while Locked leaves the state Locked.
C1_LockIffOverLimit ==
    [][ /\ (~isLocked /\ isLocked') => usageSeconds' > LimitSeconds'
        /\ (LockEvaluated /\ usageSeconds' > LimitSeconds') => isLocked'
        /\ (LockEvaluated /\ isLocked) => isLocked' ]_vars

\* The lock screen is up because the total went over the limit.
C1_Witness ==
    /\ isLocked /\ view = "locked"
    /\ usageSeconds > LimitSeconds
    /\ nTicks > 0

\* C2: a step from Locked to Unlocked is a step of unlockSystem.
C2_OnlyUnlockSystemUnlocks ==
    [][ (isLocked /\ ~isLocked') => UnlockSystem ]_vars

\* Still Locked although the total is back to zero after a period boundary.
C2_Witness ==
    /\ isLocked
    /\ today > 0
    /\ usageSeconds = 0

\* The state is Unlocked although the total exceeds the limit.
Overridden == ~isLocked /\ usageSeconds > LimitSeconds

\* C17: whenever the lock screen is up, whatever the total, unlockSystem can
\* be called and ends Unlocked, leaving the total as it is; from then on,
\* with the total still above the limit, a step that does not evaluate the
\* lock condition leaves the state Unlocked, and the next usage record, which
\* takes the total further above the limit, ends Locked.
C17_OverrideIgnoresTotal ==
    /\ []((isLocked /\ view = "locked") => ENABLED (UnlockSystem /\ ~isLocked'))
    /\ [][ /\ UnlockSystem => (~isLocked' /\ usageSeconds' = usageSeconds)
           /\ (Overridden /\ ~LockEvaluated) => ~isLocked'
           /\ (Overridden /\ usageSeconds' = usageSeconds + TickSeconds
                  /\ limitMinutes' = limitMinutes) => isLocked' ]_vars

\* The override was granted with the total above the limit, and the usage
\* interval has firings left.
C17_Witness ==
    /\ Overridden
    /\ view = "dashboard"
    /\ usageSeconds = 70 /\ limitMinutes = 1
    /\ nTicks < MaxTicks

\* C18: the lock flag is set exactly when the lock screen is the view.
C18_LockFlagIsLockScreen == isLocked <=> view = "locked"

(***************************************************************************)
(* Emergency dispatcher                                                    *)
(***************************************************************************)
\* C3: at most one emergency dispatch is pending at any instant: a trigger
\* while an incident is active starts no second one.
C3_OneIncident == Len(emTimers) <= 1

\* C11: a step of the dispatcher (handleEmergency is called, or its
\* timeout fires) leaves the lock flag, the view, the usage total, the limit
\* and the ledger as they are; the SOS buttons of the dashboard and of the
\* lock screen both trigger (the witness: triggers made Unlocked and Locked).
C11_DispatcherLeavesLock ==
    [][ (emTimers' # emTimers \/ isEmergencyActive' # isEmergencyActive)
          => UNCHANGED <<isLocked, view, usageSeconds, limitMinutes, logs>> ]_vars

\* Incidents were triggered Unlocked and Locked, all have completed, and the
\* lock screen is still up.
C11_Witness ==
    /\ emPressedIn = {TRUE, FALSE}
    /\ emTimers = <<>> /\ lastAlert # <<>> /\ ~isEmergencyActive
    /\ isLocked /\ view = "locked"

\* C13: every incident that is marked active is eventually cleared, and the
\* active flag is not cleared while a dispatch (a scheduled alert) is still
\* pending.
C13_IncidentEndsWhenDispatched ==
    /\ [](isEmergencyActive => <>(~isEmergencyActive))
    /\ [](~isEmergencyActive => emTimers = <<>>)

\* The pending dispatches whose guardian set holds g, each counted as often
\* as the set holds g.
RECURSIVE PendingFor(_, _)
PendingFor(timers, g) ==
    IF timers = <<>> THEN 0
    ELSE Count(Head(timers), g) + PendingFor(Tail(timers), g)

C4_ScoreInRange == fatigueLevel >= 0 /\ fatigueLevel <= 100

GenericRecommendations == {InitialRecommendation, DefaultRecommendation}

\* C5: the stored advisory result is the last result the oracle gave as a
\* JSON object or, if there has been none, score 0 with a generic
\* recommendation: a failed call or an answer that is not parseable (no
\* text, text that is not JSON, null) leaves it so.
C5_KeepsLastGood ==
    IF lastGood = <<>>
      THEN fatigueLevel = 0 /\ recommendation \in GenericRecommendations
      ELSE /\ fatigueLevel = lastGood[1].score
           /\ recommendation = lastGood[1].rec

\* C19: the stored advisory result is that of the latest-made call among the
\* calls whose results have been stored: the answer to an older call,
\* arriving late, does not replace the result of a newer one.
C19_NewestResultWins == storedBy = newestStored

\* C10: a step in which an analyzeFatigue call completes leaves isLocked and
\* the view as they are; a step that makes a call changes isLocked only to
\* Locked with the total over the limit, and the view only to the lock screen.
C10_AdvisoryNeverLocks ==
    [][ /\ (advPending' # advPending /\ advPending' \subseteq advPending)
             => UNCHANGED <<isLocked, view>>
        /\ (advIssued' # advIssued)
             => /\ isLocked' # isLocked
                     => (isLocked' /\ usageSeconds' > LimitSeconds')
                /\ view' # view => (view' = "locked" /\ isLocked' /\ ~isLocked) ]_vars

\* A call has returned a score above 100 and the screen is not locked.
C10_Witness ==
    /\ fatigueLevel = 150
    /\ ~isLocked /\ view = "dashboard"
    /\ advIssued > 0 /\ advPending = {}

\* C12: while analyzeFatigue calls are pending, the server still inserts the
\* 10-second row of a tick's POST, the continuation of trackUsage still adds
\* 10 to usageSeconds, and the lock condition is evaluated on the new total
\* in that step: the state is Locked after it if the total exceeds the limit.
C12_AccrualIgnoresAdvisory ==
    [][ advPending # {} =>
          /\ ServePost => logs' = Append(logs, [day |-> today, dur |-> TickSeconds])
          /\ TrackResolve =>
                /\ usageSeconds' = usageSeconds + TickSeconds
                /\ isLocked' = (isLocked \/ usageSeconds' > LimitSeconds') ]_vars

\* The lock engaged on a tick while a call made a tick earlier had not
\* returned.
C12_Witness ==
    /\ advPending # {}
    /\ isLocked /\ view = "locked"
    /\ usageSeconds = 70 /\ limitMinutes = 1
    /\ nTicks > 0

\* C16: whatever total was loaded, and whether or not earlier calls have
\* returned, a tick that completes a further minute of accumulated usage (it
\* takes usageSeconds to or past the next multiple of 60) makes one
\* analyzeFatigue call.
C16_RefreshEachMinute ==
    [][ (TrackResolve
           /\ usageSeconds' \div AdvisoryPeriod > usageSeconds \div AdvisoryPeriod)
          => advIssued' = advIssued + 1 ]_vars

(***************************************************************************)
(* Usage ledger                                                            *)
(***************************************************************************)
\* C6: the total of GET /api/stats is the sum of the durations recorded
\* since the most recent period boundary.
C6_TotalIsPeriodSum == StatsTotal = periodSum

\* The ledger holds usage of an earlier period and usage of the current one.
C6_Witness ==
    /\ \E i \in DOMAIN logs : logs[i].day < today /\ logs[i].dur > 0
    /\ \E i \in DOMAIN logs : logs[i].day = today /\ logs[i].dur > 0
    /\ StatsTotal > 0

\* C15: every step leaves the events already stored as they are, in their
\* order, and adds at most one; a served POST /api/usage, of the page or of
\* another caller, adds exactly one.
C15_LedgerAppendOnly ==
    [][ /\ Len(logs') >= Len(logs)
        /\ Len(logs') <= Len(logs) + 1
        /\ SubSeq(logs', 1, Len(logs)) = logs
        /\ (ServePost \/ \E d \in ApiDurations : ApiPostUsage(d))
             => Len(logs') = Len(logs) + 1 ]_vars

\* Events of an earlier period are still stored after events of the current
\* one have been added.
C15_Witness ==
    /\ Len(logs) >= 3
    /\ logs[1].day < today
    /\ logs[Len(logs)].day = today
    /\ logs[Len(logs) - 1].day = today

\* C7: once the page has loaded its data, in every state with no usage POST
\* and no fetchData in flight, usageSeconds is the ledger's current-period
\* total.
C7_ClientTotalIsLedgerTotal ==
    (loaded /\ posts.sent = 0 /\ posts.done = 0 /\ fetches = <<>>)
        => usageSeconds = StatsTotal

\* C20: a tick whose POST was lost on the way, or was answered with an
\* error and stored nothing, leaves usageSeconds and the lock flag as they
\* are; a step in which a tick adds its 10 seconds consumes the answer to a
\* POST whose row was inserted.
C20_FailedTickDoesNotCount ==
    [][ /\ (posts'.sent < posts.sent /\ posts'.done = posts.done
               /\ posts'.failed = posts.failed)
             => UNCHANGED <<usageSeconds, isLocked>>
        /\ posts'.failed < posts.failed => UNCHANGED <<usageSeconds, isLocked>>
        /\ (posts' # posts /\ usageSeconds' = usageSeconds + TickSeconds)
             => posts'.done < posts.done ]_vars

\* C8: within a period the total the lock evaluation sees never decreases,
\* and at a period boundary it is reset to zero.
C8_MonotoneWithinPeriod ==
    [][ /\ today' = today => usageSeconds' >= usageSeconds
        /\ today' # today => usageSeconds' = 0 ]_vars

\* C9: a POST /api/usage whose duration is zero or negative leaves the stored
\* events and the current-period total as they are.
C9_RejectsNonPositive ==
    [][ \A d \in ApiDurations :
          (d <= 0 /\ ApiPostUsage(d)) => (logs' = logs /\ StatsTotal' = StatsTotal) ]_vars

\* C21: usage accrual does not depend on the lock. While the page is locked
\* the interval can still fire (as long as the firings and requests explored
\* are not used up); in either lock state a firing sends one request and
\* leaves the lock, the view and the total alone, a served request appends one
\* 10-second row to the ledger, and a resolved request adds 10 seconds to the
\* total; and a step that enters or leaves the lock neither fires the interval
\* nor drops or adds a request that is on its way.
C21_AccrualIgnoresLock ==
    /\ []((isLocked /\ nTicks < MaxTicks
             /\ posts.sent + posts.done + posts.failed < MaxPosts) => ENABLED Tick)
    /\ [][ /\ Tick => (posts'.sent = posts.sent + 1
                       /\ UNCHANGED <<isLocked, view, usageSeconds, logs>>)
           /\ ServePost => logs' = Append(logs, [day |-> today, dur |-> TickSeconds])
           /\ TrackResolve => usageSeconds' = usageSeconds + TickSeconds
           /\ isLocked' # isLocked => (nTicks' = nTicks /\ posts'.sent = posts.sent) ]_vars

\* The interval has fired once unlocked and once locked, and the request of
\* the firing made under the lock has been recorded and counted: the page is
\* locked with 80 seconds against a limit of one minute.
C21_Witness ==
    /\ tickedIn = {FALSE, TRUE}
    /\ isLocked
    /\ view = "locked"
    /\ limitMinutes = 1
    /\ usageSeconds = 80
    /\ StatsTotal = 80
    /\ posts = [sent |-> 0, done |-> 0, failed |-> 0]

====
